---- MODULE Spec2Model ----
(***************************************************************************)
(* cmus-auto-lyrics: the lyric line locator (MinimalUI.scroll, UI.scroll), *)
(* the scroll state of both user interfaces and the polling loop of main;  *)
(* and, each run on its own, the parsing of a timestamp, get_lyrics with   *)
(* fill_tags, and the line wrapping of both renderers.                     *)
(*                                                                         *)
(* Objects are records, methods are operators from a record `self` to the  *)
(* record after the call.  A lyric line is modelled by what the timestamp  *)
(* pattern finds in it: <<>> when the pattern does not match, otherwise    *)
(* the three matched groups <<minutes, seconds, field>>.  Times parsed     *)
(* from a line are kept in hundredths of a second, so that                 *)
(* minutes*60 + seconds + field/100 stays an integer.                      *)
(***************************************************************************)
EXTENDS Integers, Sequences, FiniteSets, TLC

\* ------------------------------------------------------------------ bounds
MaxLines == 2
MaxDuration == 1
MaxRows == 2
MaxScanLines == 3
MaxSeconds == 2

\* ------------------------------------------------------- program constants
\* check_status = int(check_status_s / delay) = int(1 / 0.05)
check_status == 20

\* Python None as a song path, and as an entry of MinimalUI.timestamps
None == "None"
NoTimestamp == -1

\* the outcomes of screen.getch() that wait_input tells apart; OTHER is -1
\* (no key pending) or any key without a branch
Keys == {"OTHER", "KEY_UP", "KEY_DOWN", "KEY_RESIZE"}

Max(a, b) == IF a >= b THEN a ELSE b

\* ------------------------------------------------------------------ screen
\* the curses window: its height (getmaxyx()[0]) and the number of
\* refresh() calls since the counter was last cleared
Screen(h) == [h |-> h, refreshes |-> 0]

Refresh(screen) == [screen EXCEPT !.refreshes = @ + 1]

\* ------------------------------------------------------------- MinimalUI
\* has_timestamps is first assigned by update_lyrics, which main always
\* calls before scroll; FALSE stands for the attribute not being set yet
MinimalUI_init(screen) ==
    [cls |-> "MinimalUI",
     screen |-> screen,
     lines |-> <<>>,
     current_line_idx |-> 0,
     last_displayed_idx |-> -1,
     timestamps |-> <<>>,
     has_timestamps |-> FALSE]

\* minutes * 60 + seconds + milliseconds / 100, in hundredths of a second
time_in_seconds(groups) == (groups[1] * 60 + groups[2]) * 100 + groups[3]

parse_timestamps(lines) ==
    [i \in 1..Len(lines) |->
        IF lines[i] # <<>> THEN time_in_seconds(lines[i]) ELSE NoTimestamp]

MinimalUI_update_lyrics(self, lyrics) ==
    LET ts == parse_timestamps(lyrics)
    IN [self EXCEPT !.lines = lyrics,
                    !.current_line_idx = 0,
                    !.last_displayed_idx = -1,
                    !.timestamps = ts,
                    !.has_timestamps = \E i \in 1..Len(ts) : ts[i] # NoTimestamp]

MinimalUI_draw(self) == [self EXCEPT !.screen = Refresh(@)]

\* scan with `timestamp < song_position` for `timestamp <= song_position`
RECURSIVE scan_before(_, _, _, _)
scan_before(timestamps, song_position, i, current_idx) ==
    IF i > Len(timestamps) THEN current_idx
    ELSE IF timestamps[i] # NoTimestamp /\ timestamps[i] < song_position * 100
         THEN scan_before(timestamps, song_position, i + 1, i - 1)
    ELSE IF timestamps[i] # NoTimestamp /\ timestamps[i] > song_position * 100
         THEN current_idx
    ELSE scan_before(timestamps, song_position, i + 1, current_idx)

\* scan with a line without a timestamp ending the loop
RECURSIVE scan_stopping(_, _, _, _)
scan_stopping(timestamps, song_position, i, current_idx) ==
    IF i > Len(timestamps) THEN current_idx
    ELSE IF timestamps[i] # NoTimestamp /\ timestamps[i] <= song_position * 100
         THEN scan_stopping(timestamps, song_position, i + 1, i - 1)
    ELSE current_idx

\* the for loop of scroll from list index i-1 on (i is the 1-based index),
\* with current_idx as it stands; song_position is in seconds
RECURSIVE scan(_, _, _, _)
scan(timestamps, song_position, i, current_idx) ==
    IF i > Len(timestamps) THEN current_idx
    ELSE IF timestamps[i] # NoTimestamp /\ timestamps[i] <= song_position * 100
         THEN scan(timestamps, song_position, i + 1, i - 1)
    ELSE IF timestamps[i] # NoTimestamp /\ timestamps[i] > song_position * 100
         THEN current_idx
    ELSE scan(timestamps, song_position, i + 1, current_idx)

\* the index MinimalUI.scroll assigns to current_line_idx
MinimalUI_locate(self, song_duration, song_position) ==
    IF self.has_timestamps
    THEN scan(self.timestamps, song_position, 1, 0)
    ELSE (song_position * Len(self.lines)) \div song_duration

MinimalUI_scroll(self, song_duration, song_position) ==
    IF Len(self.lines) = 0 \/ song_duration <= 0
    THEN [self |-> self, raised |-> FALSE]
    ELSE LET idx == MinimalUI_locate(self, song_duration, song_position)
             s1 == [self EXCEPT !.current_line_idx = idx]
         IN IF idx # self.last_displayed_idx
            THEN [self |-> MinimalUI_draw([s1 EXCEPT !.last_displayed_idx = idx]),
                  raised |-> FALSE]
            ELSE [self |-> s1, raised |-> FALSE]

MinimalUI_wait_input(self, input_key, new_h) ==
    IF input_key = "KEY_UP" /\ self.current_line_idx > 0
    THEN [self |-> MinimalUI_draw([self EXCEPT !.current_line_idx = @ - 1]),
          ret |-> TRUE]
    ELSE IF input_key = "KEY_DOWN" /\ self.current_line_idx < Len(self.lines) - 1
    THEN [self |-> MinimalUI_draw([self EXCEPT !.current_line_idx = @ + 1]),
          ret |-> TRUE]
    ELSE IF input_key = "KEY_RESIZE"
    THEN [self |-> [self EXCEPT !.screen.h = new_h], ret |-> FALSE]
    ELSE [self |-> self, ret |-> FALSE]

\* -------------------------------------------------------------------- UI
UI_init(screen) ==
    [cls |-> "UI",
     screen |-> screen,
     lines |-> <<>>,
     position |-> 0,
     position_old |-> 0]

UI_update_lyrics(self, lyrics) == [self EXCEPT !.lines = lyrics]

UI_draw(self) == [self EXCEPT !.screen = Refresh(@)]

\* int(song_position * len(self.lines) / song_duration), song_duration # 0
UI_line_index(self, song_duration, song_position) ==
    (song_position * Len(self.lines)) \div song_duration

\* the division raises ZeroDivisionError when song_duration is 0
UI_scroll(self, song_duration, song_position) ==
    IF song_duration = 0
    THEN [self |-> self, raised |-> TRUE]
    ELSE LET line_index == UI_line_index(self, song_duration, song_position)
             pos == Max(0, line_index - (self.screen.h \div 2))
             s1 == [self EXCEPT !.position = pos]
         IN IF pos # self.position_old
            THEN [self |-> UI_draw([s1 EXCEPT !.position_old = pos]),
                  raised |-> FALSE]
            ELSE [self |-> s1, raised |-> FALSE]

\* self.position < len(self.lines) - h / 2, the division being a float one
UI_can_scroll_down(self) == 2 * self.position < 2 * Len(self.lines) - self.screen.h

\* getch() returning KEY_RESIZE is what makes getmaxyx() report new_h
UI_wait_input(self, input_key, new_h) ==
    IF input_key = "KEY_UP" /\ self.position > 0
    THEN [self |-> UI_draw([self EXCEPT !.position = @ - 1]), ret |-> TRUE]
    ELSE IF input_key = "KEY_DOWN" /\ UI_can_scroll_down(self)
    THEN [self |-> UI_draw([self EXCEPT !.position = @ + 1]), ret |-> TRUE]
    ELSE IF input_key = "KEY_RESIZE"
    THEN [self |-> UI_draw([self EXCEPT !.screen.h = new_h]), ret |-> FALSE]
    ELSE [self |-> self, ret |-> FALSE]

\* ------------------------------------------------- dispatch on the class
update_lyrics(self, lyrics) ==
    IF self.cls = "UI" THEN UI_update_lyrics(self, lyrics)
    ELSE MinimalUI_update_lyrics(self, lyrics)

scroll(self, song_duration, song_position) ==
    IF self.cls = "UI" THEN UI_scroll(self, song_duration, song_position)
    ELSE MinimalUI_scroll(self, song_duration, song_position)

draw(self) == IF self.cls = "UI" THEN UI_draw(self) ELSE MinimalUI_draw(self)

wait_input(self, input_key, new_h) ==
    IF self.cls = "UI" THEN UI_wait_input(self, input_key, new_h)
    ELSE MinimalUI_wait_input(self, input_key, new_h)

\* the scroll offset of the viewport
ScrollOffset(self) ==
    IF self.cls = "UI" THEN self.position ELSE self.current_line_idx

\* ------------------------------------------------------------ cmus_status
\* What `cmus-remote -Q` answered: error is a non-empty stderr; has is the
\* set of first words among file / duration / position that head a line of
\* stdout (a player with no current file prints none of the three).
Songs == {"a.mp3", "b.mp3"}

PlayerOutputs ==
    {[error |-> TRUE, has |-> {}, file |-> None, duration |-> 0, position |-> 0]}
    \cup {[error |-> FALSE, has |-> {}, file |-> None, duration |-> 0, position |-> 0]}
    \cup {[error |-> FALSE, has |-> {"file", "duration", "position"},
           file |-> f, duration |-> dp[1], position |-> dp[2]] :
             f \in Songs,
             dp \in {x \in {0, MaxDuration} \X (0..MaxDuration) : x[2] <= x[1]}}

\* a local that no line of the output assigned is unbound at the return
\* statement: UnboundLocalError.  None for duration / position is -1.
cmus_status(out) ==
    IF out.error
    THEN [raised |-> FALSE, song_path |-> None, duration |-> -1, position |-> -1]
    ELSE IF out.has # {"file", "duration", "position"}
    THEN [raised |-> TRUE, song_path |-> None, duration |-> -1, position |-> -1]
    ELSE [raised |-> FALSE, song_path |-> out.file,
          duration |-> out.duration, position |-> out.position]

\* ------------------------------------------------------------- get_lyrics
\* The lyrics get_lyrics can return, as the list lyrics.split("\n"): at
\* least one line; either no line carries a timestamp, or there are
\* MaxLines lines and line i carries [00:0i.00].
Lyrics ==
    {[i \in 1..n |-> <<>>] : n \in 1..MaxLines}
    \cup {[i \in 1..MaxLines |-> <<0, i - 1, 0>>]}

\* ------------------------------------------------------------------- main
\* args: the command line; ui: the user interface object; main: the locals
\* of main and where it stands (pc: start, loop, exited, error); manual:
\* whether wait_input read a KEY_UP or KEY_DOWN since the lyrics on screen
\* were loaded.  The operators of main work on a record s of ui, main and
\* manual, and of calls: how often the action under way called get_lyrics
\* and fill_tags.
\* call: a function run on its own, outside main: its name, its arguments
\* and what it returned; NoCall while main runs.
VARIABLES args, ui, main, manual, call

vars == <<args, ui, main, manual, call>>

NoCall == [fn |-> "none"]

\* terminal heights
Rows == 1..MaxRows

\* main, up to the construction of the user interface.  fill_tags acts on
\* the song file only, not on ui or on the locals of main: Spec runs the
\* command lines without --save-tags, SpecFetch below those with and without.
Init ==
    /\ args \in [minimal : BOOLEAN, auto_scroll : BOOLEAN, save_tags : {FALSE}]
    /\ \E h \in Rows :
         ui = IF args.minimal THEN MinimalUI_init(Screen(h)) ELSE UI_init(Screen(h))
    /\ main = [pc |-> "start", song_path |-> None, duration |-> -1, position |-> -1,
               song_path_old |-> None, position_old |-> -1, timer |-> 0,
               disable_auto_scroll |-> FALSE]
    /\ manual = FALSE
    /\ call = NoCall

\* the calls counted after `lyrics, artist, title = get_lyrics(...)` and
\* `if save_tags: fill_tags(...)`
fetch(calls, save_tags) ==
    [calls EXCEPT !.get_lyrics = @ + 1,
                  !.fill_tags = IF save_tags THEN @ + 1 ELSE @]

\* main from the first cmus_status() to `run = True`
startup(s, out, lyrics) ==
    LET st == cmus_status(out)
        m1 == [s.main EXCEPT !.song_path = st.song_path, !.duration = st.duration,
                             !.position = st.position]
    IN IF st.raised
       THEN [s EXCEPT !.main = [s.main EXCEPT !.pc = "error"]]
       ELSE IF st.song_path = None
       THEN [s EXCEPT !.main = [m1 EXCEPT !.pc = "exited"]]
       ELSE LET sc == scroll(update_lyrics(s.ui, lyrics), st.duration, st.position)
                c1 == fetch(s.calls, args.save_tags)
            IN IF sc.raised
               THEN [s EXCEPT !.ui = sc.self, !.main = [m1 EXCEPT !.pc = "error"],
                              !.calls = c1]
               ELSE [s EXCEPT !.ui = draw(sc.self),
                              !.calls = c1,
                              !.main = [m1 EXCEPT !.pc = "loop",
                                                  !.song_path_old = st.song_path,
                                                  !.position_old = st.position,
                                                  !.timer = 0,
                                                  !.disable_auto_scroll = FALSE]]

\* `if timer >= check_status:` and its body
poll_status(s, out) ==
    IF s.main.pc # "loop" \/ s.main.timer < check_status THEN s
    ELSE LET st == cmus_status(out)
         IN IF st.raised
            THEN [s EXCEPT !.main = [s.main EXCEPT !.pc = "error"]]
            ELSE [s EXCEPT !.main = [s.main EXCEPT !.song_path = st.song_path,
                                                   !.duration = st.duration,
                                                   !.position = st.position,
                                                   !.timer = 0]]

\* song_change without `song_path_old = song_path`
song_change_forgetting(s, lyrics) ==
    IF s.main.pc # "loop" \/ s.main.song_path = s.main.song_path_old THEN s
    ELSE IF s.main.song_path = None
    THEN [s EXCEPT !.main = [s.main EXCEPT !.pc = "exited"]]
    ELSE [s EXCEPT !.ui = draw(update_lyrics(s.ui, lyrics)),
                   !.main = [s.main EXCEPT !.disable_auto_scroll = FALSE],
                   !.manual = FALSE,
                   !.calls = fetch(s.calls, args.save_tags)]

\* `if song_path != song_path_old:` and its body
song_change(s, lyrics) ==
    IF s.main.pc # "loop" \/ s.main.song_path = s.main.song_path_old THEN s
    ELSE IF s.main.song_path = None
    THEN [s EXCEPT !.main = [s.main EXCEPT !.pc = "exited"]]
    ELSE [s EXCEPT !.ui = draw(update_lyrics(s.ui, lyrics)),
                   !.main = [s.main EXCEPT !.song_path_old = s.main.song_path,
                                           !.disable_auto_scroll = FALSE],
                   !.manual = FALSE,
                   !.calls = fetch(s.calls, args.save_tags)]

\* auto_scroll with `if not disable_auto_scroll:` for the if
auto_scroll_always(s, enabled) ==
    IF s.main.pc # "loop" \/ s.main.disable_auto_scroll
       \/ s.main.position = s.main.position_old
    THEN s
    ELSE LET sc == scroll(s.ui, s.main.duration, s.main.position)
             m1 == [s.main EXCEPT !.position_old = s.main.position]
         IN IF sc.raised
            THEN [s EXCEPT !.ui = sc.self, !.main = [m1 EXCEPT !.pc = "error"]]
            ELSE [s EXCEPT !.ui = draw(sc.self), !.main = m1]

\* `if auto_scroll and not disable_auto_scroll:` and its body
auto_scroll(s, enabled) ==
    IF s.main.pc # "loop" \/ ~enabled \/ s.main.disable_auto_scroll
       \/ s.main.position = s.main.position_old
    THEN s
    ELSE LET sc == scroll(s.ui, s.main.duration, s.main.position)
             m1 == [s.main EXCEPT !.position_old = s.main.position]
         IN IF sc.raised
            THEN [s EXCEPT !.ui = sc.self, !.main = [m1 EXCEPT !.pc = "error"]]
            ELSE [s EXCEPT !.ui = draw(sc.self), !.main = m1]

\* handle_input with `disable_auto_scroll = key_pressed` for the if
handle_input_assigning(s, input_key, new_h) ==
    IF s.main.pc # "loop" THEN s
    ELSE LET w == wait_input(s.ui, input_key, new_h)
         IN [s EXCEPT !.ui = w.self,
                      !.main = [s.main EXCEPT !.disable_auto_scroll = w.ret],
                      !.manual = (@ \/ input_key \in {"KEY_UP", "KEY_DOWN"})]

\* `key_pressed = ui.wait_input()` and the if after it
handle_input(s, input_key, new_h) ==
    IF s.main.pc # "loop" THEN s
    ELSE LET w == wait_input(s.ui, input_key, new_h)
         IN [s EXCEPT !.ui = w.self,
                      !.main = [s.main EXCEPT !.disable_auto_scroll = (@ \/ w.ret)],
                      !.manual = (@ \/ input_key \in {"KEY_UP", "KEY_DOWN"})]

\* `timer += 1`
count_tick(s) ==
    IF s.main.pc # "loop" THEN s
    ELSE [s EXCEPT !.main = [s.main EXCEPT !.timer = @ + 1]]

\* the iteration up to, and without, the call of wait_input
reconcile(s, enabled, out, lyrics) ==
    auto_scroll(song_change(poll_status(s, out), lyrics), enabled)

\* loop_body with the input read at the top of the iteration
loop_body_input_first(s, enabled, out, lyrics, input_key, new_h) ==
    count_tick(reconcile(handle_input(s, input_key, new_h), enabled, out, lyrics))

\* one iteration of `while run:`
loop_body(s, enabled, out, lyrics, input_key, new_h) ==
    count_tick(handle_input(reconcile(s, enabled, out, lyrics), input_key, new_h))

\* no call of get_lyrics or fill_tags yet
NoCalls == [get_lyrics |-> 0, fill_tags |-> 0]

\* the program's state: what an action starts from
Cur == [ui |-> ui, main |-> main, manual |-> manual, calls |-> NoCalls]

\* refreshes counts the redraws of one action: it is zero between actions
Cleared(self) == [self EXCEPT !.screen.refreshes = 0]

\* the player's answer that is never read (the iteration does not poll) and
\* the lyrics that are never read (the song did not change)
NoOutput == CHOOSE o \in PlayerOutputs : o.error
NoLyrics == CHOOSE l \in Lyrics : Len(l) = 1

\* what main reads before the loop: the player's answer and the lyrics
StartInputs ==
    {[out |-> o, lyrics |-> l] :
        o \in PlayerOutputs,
        l \in Lyrics}

\* the lyrics the iteration reads when its poll answers `o`: those of
\* get_lyrics if the answer changes the song, none otherwise
LyricsRead(o) ==
    IF /\ main.timer >= check_status
       /\ ~cmus_status(o).raised
       /\ cmus_status(o).song_path \notin {None, main.song_path_old}
    THEN Lyrics
    ELSE {NoLyrics}

\* the key the iteration reads and the height the terminal has after it:
\* another height only with a KEY_RESIZE
KeysRead ==
    ((Keys \ {"KEY_RESIZE"}) \X {ui.screen.h}) \cup ({"KEY_RESIZE"} \X Rows)

\* what the iteration starting in the current state can read: the player's
\* answer when it polls, the lyrics when that answer changes the song, the
\* key, and the height the terminal has once a KEY_RESIZE is read
TickInputs ==
    UNION {{[out |-> o, lyrics |-> l, key |-> k[1], new_h |-> k[2]] :
               l \in LyricsRead(o), k \in KeysRead} :
           o \in IF main.timer >= check_status THEN PlayerOutputs ELSE {NoOutput}}

\* `in` is one of the inputs the iteration reads
Read(in) ==
    /\ in.lyrics # NoLyrics =>
         /\ main.timer >= check_status
         /\ ~cmus_status(in.out).raised
         /\ cmus_status(in.out).song_path \notin {None, main.song_path_old}
    /\ in.new_h # ui.screen.h => in.key = "KEY_RESIZE"

\* the result of the iteration on these inputs
Iteration(in) ==
    loop_body(Cur, args.auto_scroll, in.out, in.lyrics, in.key, in.new_h)

\* the state the iteration's wait_input starts from
BeforeInput(in) == reconcile(Cur, args.auto_scroll, in.out, in.lyrics)

Start ==
    /\ main.pc = "start"
    /\ \E in \in StartInputs :
         LET s == startup(Cur, in.out, in.lyrics)
         IN /\ ui' = Cleared(s.ui)
            /\ main' = s.main
            /\ manual' = s.manual
    /\ UNCHANGED <<args, call>>

Tick ==
    /\ main.pc = "loop"
    /\ \E in \in TickInputs :
         /\ Read(in)
         /\ LET s == Iteration(in)
            IN /\ ui' = Cleared(s.ui)
               /\ main' = s.main
               /\ manual' = s.manual
    /\ UNCHANGED <<args, call>>

Next == Start \/ Tick

Spec == Init /\ [][Next]_vars

\* the command lines with --minimal, with and without --save-tags
InitFetch ==
    /\ args \in [minimal : {TRUE}, auto_scroll : BOOLEAN, save_tags : BOOLEAN]
    /\ \E h \in Rows : ui = MinimalUI_init(Screen(h))
    /\ main = [pc |-> "start", song_path |-> None, duration |-> -1, position |-> -1,
               song_path_old |-> None, position_old |-> -1, timer |-> 0,
               disable_auto_scroll |-> FALSE]
    /\ manual = FALSE
    /\ call = NoCall

SpecFetch == InitFetch /\ [][Next]_vars

\* ------------------------------------------------------------ the locator
\* MinimalUI.update_lyrics followed by MinimalUI.scroll, on every lyric set
\* of at most MaxScanLines lines whose timestamps are whole or half seconds
\* up to MaxSeconds, every duration and every position.
MinuteTokens == {<<0, sec, field>> : sec \in 0..MaxSeconds, field \in {0, 50}}

RECURSIVE SeqsUpTo(_, _)
SeqsUpTo(S, n) ==
    IF n = 0 THEN {<<>>}
    ELSE LET shorter == SeqsUpTo(S, n - 1)
         IN shorter \cup {Append(q, x) : q \in shorter, x \in S}

ScanLyrics == SeqsUpTo({<<>>} \cup MinuteTokens, MaxScanLines) \ {<<>>}

InitLocate ==
    /\ args = [minimal |-> TRUE, auto_scroll |-> TRUE, save_tags |-> FALSE]
    /\ ui = MinimalUI_init(Screen(1))
    /\ main = [pc |-> "locate", song_path |-> None, duration |-> -1, position |-> -1,
               song_path_old |-> None, position_old |-> -1, timer |-> 0,
               disable_auto_scroll |-> FALSE]
    /\ manual = FALSE
    /\ call = NoCall

Locate ==
    /\ main.pc = "locate"
    /\ \E lyrics \in ScanLyrics, d \in 0..MaxDuration, p \in 0..(MaxSeconds + 1) :
         /\ ui' = Cleared(scroll(update_lyrics(MinimalUI_init(Screen(1)), lyrics),
                                 d, p).self)
         /\ main' = [main EXCEPT !.pc = "located", !.duration = d, !.position = p]
    /\ UNCHANGED <<args, manual, call>>

SpecLocate == InitLocate /\ [][Locate]_vars

\* ------------------------------------------------- parsing a timestamp
\* The groups the timestamp pattern \[(\d+):(\d+)\.(\d+)\] matches are
\* strings of digits, here sequences of digits; update_lyrics converts each
\* with int and computes the time from the three numbers.
MaxDigits == 3

\* int(s) for a string s of decimal digits
RECURSIVE int(_)
int(digits) ==
    IF digits = <<>> THEN 0
    ELSE int(SubSeq(digits, 1, Len(digits) - 1)) * 10 + digits[Len(digits)]

\* the sub-second fields: up to MaxDigits digits out of 0, 3 and 9
Fields == SeqsUpTo({0, 3, 9}, MaxDigits) \ {<<>>}

\* the matches [m:ss.f] with m of one or two digits and ss of two
Matches == {<<0>>, <<1>>, <<0, 1>>} \X {<<0, 0>>, <<0, 9>>, <<5, 9>>} \X Fields

\* no function was run yet
InitCall ==
    /\ args = [minimal |-> TRUE, auto_scroll |-> TRUE, save_tags |-> FALSE]
    /\ ui = MinimalUI_init(Screen(1))
    /\ main = [pc |-> "call", song_path |-> None, duration |-> -1, position |-> -1,
               song_path_old |-> None, position_old |-> -1, timer |-> 0,
               disable_auto_scroll |-> FALSE]
    /\ manual = FALSE
    /\ call = NoCall

\* `minutes, seconds, milliseconds = map(int, groups)` and the line after it
ParseTimestamp ==
    /\ call = NoCall
    /\ \E groups \in Matches :
         LET numbers == <<int(groups[1]), int(groups[2]), int(groups[3])>>
         IN call' = [fn |-> "time_in_seconds",
                     groups |-> groups,
                     minutes |-> numbers[1],
                     seconds |-> numbers[2],
                     ret |-> time_in_seconds(numbers)]
    /\ UNCHANGED <<args, ui, main, manual>>

SpecParse == InitCall /\ [][ParseTimestamp]_vars

\* ------------------------------------------------ get_lyrics, fill_tags
NOT_LYRICS ==
    {"No internet connection.",
     "No Genius API token provided.",
     "No lyrics tag. Running in offline mode."}

\* what the lyrics tag of a song file holds: nothing, a text of 12
\* characters, one of 15, or lyrics
TagTexts == {"", "Instrumental", "(instrumental.)", "La la la la la la la."}

\* the lyrics a fetcher finds
WebLyrics == "Na na na na na na na."

\* len(text) for the texts above
len(text) ==
    CASE text = "" -> 0
      [] text = "Instrumental" -> 12
      [] text = "(instrumental.)" -> 15
      [] text = "Lyrics not found." -> 17
      [] text \in {"La la la la la la la.", WebLyrics} -> 21
      [] text = "No internet connection." -> 23
      [] text = "No Genius API token provided." -> 29
      [] text = "No lyrics tag. Running in offline mode." -> 39

\* how the request of a fetcher ends
WebOutcomes == {"found", "not found", "no connection"}

azlyrics_download(web) ==
    CASE web = "no connection" -> "No internet connection."
      [] web = "not found" -> "Lyrics not found."
      [] web = "found" -> WebLyrics

genius_download(token, web) ==
    IF token = "" THEN "No Genius API token provided."
    ELSE CASE web = "no connection" -> "No internet connection."
           [] web = "not found" -> "Lyrics not found."
           [] web = "found" -> WebLyrics

\* the song files: the tags music_tag.load_file reads (an unset artist or
\* title is "")
SongFiles ==
    [lyrics : TagTexts, artist : {"", "Artist"}, title : {"", "Title"}]

\* get_lyrics on the file with these tags; title_from_path gives the names
\* when the tags do not
get_lyrics(tags, token, offline, web) ==
    LET tagged == IF len(tags.lyrics) > 12 THEN tags.lyrics ELSE None
    IN [lyrics |-> IF tagged # None THEN tagged
                   ELSE IF offline THEN "No lyrics tag. Running in offline mode."
                   ELSE IF token # "" THEN genius_download(token, web)
                   ELSE azlyrics_download(web),
        artist |-> IF tags.artist # "" THEN tags.artist ELSE "path artist",
        title |-> IF tags.title # "" THEN tags.title ELSE "path title"]

\* the tags of the file after fill_tags
fill_tags(tags, lyrics, artist, title) ==
    IF lyrics \in NOT_LYRICS \/ len(tags.lyrics) >= 16 THEN tags
    ELSE [lyrics |-> lyrics,
          artist |-> IF tags.artist = "" THEN artist ELSE tags.artist,
          title |-> IF tags.title = "" THEN title ELSE tags.title]

\* main with --save-tags: get_lyrics, then fill_tags with what it returned
SaveTags ==
    /\ call = NoCall
    /\ \E tags \in SongFiles, token \in {"", "token"}, offline \in BOOLEAN,
          web \in WebOutcomes :
         LET got == get_lyrics(tags, token, offline, web)
         IN call' = [fn |-> "fill_tags",
                     tags_before |-> tags,
                     token |-> token,
                     offline |-> offline,
                     web |-> web,
                     lyrics |-> got.lyrics,
                     tags |-> fill_tags(tags, got.lyrics, got.artist, got.title)]
    /\ UNCHANGED <<args, ui, main, manual>>

SpecTags == InitCall /\ [][SaveTags]_vars

\* ------------------------------------------------------- wrapping a line
\* A line of text is a sequence of characters.  Each renderer is run on one
\* line of at most MaxChars characters, in a window of up to MaxCols
\* columns and up to MaxWrapRows rows.
MaxChars == 5
MaxCols == 6
MaxWrapRows == 3

TextLines == SeqsUpTo({"a", " "}, MaxChars)

\* the while loop of UI.draw and the statement after it, for one line_1:
\* rows holds the strings passed to insstr (without the "\n"), one per
\* row, so line_num is Len(rows); cut is the `break`
RECURSIVE UI_wrap(_, _, _, _)
UI_wrap(line, w, h, rows) ==
    IF Len(line) >= w - 1
    THEN IF Len(rows) < h
         THEN UI_wrap(<<" ", " ">> \o SubSeq(line, w, Len(line)), w, h,
                      Append(rows, SubSeq(line, 1, w - 1)))
         ELSE [rows |-> rows, cut |-> TRUE]
    ELSE IF Len(rows) < h
         THEN [rows |-> Append(rows, line), cut |-> FALSE]
         ELSE [rows |-> rows, cut |-> TRUE]

\* line.split(): the words from character i on, word being the one begun
RECURSIVE split_from(_, _, _)
split_from(line, i, word) ==
    LET ended == IF word = <<>> THEN <<>> ELSE <<word>>
    IN IF i > Len(line) THEN ended
       ELSE IF line[i] = " " THEN ended \o split_from(line, i + 1, <<>>)
       ELSE split_from(line, i + 1, Append(word, line[i]))

split(line) == split_from(line, 1, <<>>)

\* screen.addstr(y, x, text) in a window of h rows: curses.error (caught)
\* for a position outside the window.  st.out holds the calls that wrote,
\* st.lost is whether some text was not written.
addstr(st, y, x, text, h) ==
    IF x < 0 \/ y < 0 \/ y >= h
    THEN [st EXCEPT !.lost = TRUE]
    ELSE [st EXCEPT !.out = Append(@, [y |-> y, x |-> x, text |-> text])]

\* the for loop of _draw_centered_line from words[i] on
RECURSIVE wrap_words(_, _, _, _, _)
wrap_words(words, i, st, width, h) ==
    IF i > Len(words) THEN st
    ELSE LET word == words[i]
         IN IF Len(st.current_line) + Len(word) + 1 < width - 2
            THEN wrap_words(words, i + 1,
                            [st EXCEPT !.current_line =
                                IF @ # <<>> THEN @ \o <<" ">> \o word ELSE word],
                            width, h)
            ELSE LET drawn ==
                         IF st.current_line # <<>>
                         THEN [addstr(st, st.line_pos,
                                      (width - Len(st.current_line)) \div 2,
                                      st.current_line, h)
                                  EXCEPT !.line_pos = @ + 1]
                         ELSE st
                     s1 == [drawn EXCEPT !.current_line = word]
                 IN IF s1.line_pos >= h THEN s1
                    ELSE wrap_words(words, i + 1, s1, width, h)

MinimalUI_draw_centered_line(line, y_pos, width, h) ==
    LET st0 == [current_line |-> <<>>, line_pos |-> y_pos, out |-> <<>>,
                lost |-> FALSE]
    IN IF line = <<>> THEN st0
       ELSE IF Len(line) < width - 2
       THEN addstr(st0, y_pos, (width - Len(line)) \div 2, line, h)
       ELSE LET st == wrap_words(split(line), 1, st0, width, h)
            IN IF st.current_line = <<>> THEN st
               ELSE IF st.line_pos < h
               THEN addstr(st, st.line_pos, (width - Len(st.current_line)) \div 2,
                           st.current_line, h)
               ELSE [st EXCEPT !.lost = TRUE]

\* UI.draw with self.lines = [line], self.position = 0
WrapFull ==
    /\ call = NoCall
    /\ \E line \in TextLines, w \in 1..MaxCols, h \in 1..MaxWrapRows :
         LET r == UI_wrap(line, w, h, <<>>)
         IN call' = [fn |-> "UI.draw", line |-> line, w |-> w, h |-> h,
                     rows |-> r.rows, cut |-> r.cut]
    /\ UNCHANGED <<args, ui, main, manual>>

\* MinimalUI._draw_centered_line(line, 0, w, attr)
WrapMinimal ==
    /\ call = NoCall
    /\ \E line \in TextLines, w \in 1..MaxCols, h \in 1..MaxWrapRows :
         LET r == MinimalUI_draw_centered_line(line, 0, w, h)
         IN call' = [fn |-> "MinimalUI._draw_centered_line", line |-> line,
                     w |-> w, h |-> h, out |-> r.out, lost |-> r.lost]
    /\ UNCHANGED <<args, ui, main, manual>>

NextWrap == WrapFull \/ WrapMinimal

SpecWrap == InitCall /\ [][NextWrap]_vars

\* ----------------------------------------------------------------- claims
SetMax(S) == CHOOSE x \in S : \A y \in S : y <= x

\* the player's answer changes the song in the iteration that reads `in`
SongChanges(in) ==
    LET p == poll_status(Cur, in.out)
    IN p.main.pc = "loop" /\ p.main.song_path \notin {None, main.song_path_old}

\* the iteration that reads `in` polls and is told there is no song path
NoSongPath(in) ==
    /\ main.timer >= check_status
    /\ (in.out.error \/ "file" \notin in.out.has)

\* C1: after every iteration of the loop, the scroll offset (UI.position, or
\* MinimalUI.current_line_idx) is within [0, max(0, N-1)], N being the
\* number of lines of the loaded lyric set.
ScrollOffsetInRange ==
    (main.pc = "loop" /\ main.timer > 0) =>
        /\ 0 <= ScrollOffset(ui)
        /\ ScrollOffset(ui) <= Max(0, Len(ui.lines) - 1)

\* C2: once a KEY_UP or KEY_DOWN was read, an iteration that polls a changed
\* position for the same song (and reads no further scroll key) leaves the
\* scroll offset alone; and handling a song change leaves auto-follow on.
ManualScrollStopsAutoFollow ==
    main.pc = "loop" =>
        \A in \in TickInputs :
            Read(in) =>
                LET p == poll_status(Cur, in.out)
                    r == Iteration(in)
                IN /\ ( /\ manual
                        /\ r.main.pc = "loop"
                        /\ p.main.song_path = main.song_path_old
                        /\ p.main.position # main.position
                        /\ in.key \notin {"KEY_UP", "KEY_DOWN"} )
                      => ScrollOffset(r.ui) = ScrollOffset(ui)
                   /\ SongChanges(in)
                      => ~song_change(p, in.lyrics).main.disable_auto_scroll

\* C3: a KEY_UP or KEY_DOWN read while auto-follow is on turns it off in
\* that iteration, wherever the scroll offset stands.
ScrollKeyDisablesAutoFollow ==
    main.pc = "loop" =>
        \A in \in TickInputs :
            ( /\ Read(in)
              /\ in.key \in {"KEY_UP", "KEY_DOWN"}
              /\ BeforeInput(in).main.pc = "loop"
              /\ ~BeforeInput(in).main.disable_auto_scroll )
            => Iteration(in).main.disable_auto_scroll

\* C4: the loop is entered with auto-follow on, and an iteration after whose
\* poll step song_path equals song_path_old never takes disable_auto_scroll
\* from True to False.
AutoFollowBackOnlyOnSongChange ==
    [][ /\ (main.pc = "start" /\ main'.pc = "loop")
           => ~main'.disable_auto_scroll
        /\ (main.pc = "loop" /\ main'.song_path = main.song_path_old)
           => ~(main.disable_auto_scroll /\ ~main'.disable_auto_scroll) ]_vars

\* C4 witness: manual override is on and the iteration polls the same song
\* at another position, and is still on after it.
OverrideSurvivesPoll ==
    /\ main.pc = "loop"
    /\ main.disable_auto_scroll
    /\ \E in \in TickInputs :
         /\ Read(in)
         /\ poll_status(Cur, in.out).main.song_path = main.song_path_old
         /\ poll_status(Cur, in.out).main.position # main.position
         /\ Iteration(in).main.pc = "loop"
         /\ Iteration(in).main.disable_auto_scroll

\* C5: an iteration whose poll changes the song loads the fetched lyrics,
\* turns auto-follow on, has the scroll offset at 0 once the song change is
\* handled (before auto-scroll and input handling), and redraws.
SongChangeResetsScroll ==
    main.pc = "loop" =>
        \A in \in TickInputs :
            (Read(in) /\ SongChanges(in)) =>
                LET c == song_change(poll_status(Cur, in.out), in.lyrics)
                IN /\ c.ui.lines = in.lyrics
                   /\ ~c.main.disable_auto_scroll
                   /\ ScrollOffset(c.ui) = 0
                   /\ c.ui.screen.refreshes > 0

\* the key moves the scroll offset of this user interface one line down
CanMoveDown(self) ==
    IF self.cls = "UI"
    THEN 2 * self.position < 2 * Len(self.lines) - self.screen.h
    ELSE self.current_line_idx < Len(self.lines) - 1

\* C6: when a song change and a KEY_UP / KEY_DOWN fall into one iteration,
\* the key acts on the new song's scroll state: the new lyrics are on
\* screen, the offset moves by the key from where the song change and
\* auto-scroll left it, within the limits of the new lyric set, and manual
\* override is on afterwards exactly when the key moved the offset.
KeyActsAfterSongChange ==
    main.pc = "loop" =>
        \A in \in TickInputs :
            ( /\ Read(in)
              /\ SongChanges(in)
              /\ in.key \in {"KEY_UP", "KEY_DOWN"}
              /\ BeforeInput(in).main.pc = "loop" )
            => LET b == BeforeInput(in)
                   r == Iteration(in)
                   from == ScrollOffset(b.ui)
                   to == ScrollOffset(r.ui)
               IN /\ b.ui.lines = in.lyrics
                  /\ r.ui.lines = in.lyrics
                  /\ in.key = "KEY_UP" => to = Max(0, from - 1)
                  /\ in.key = "KEY_DOWN"
                     => to = IF CanMoveDown(b.ui) THEN from + 1 ELSE from
                  /\ r.main.disable_auto_scroll = (to # from)
                  /\ r.manual

\* C6 witness: manual override is on with the offset scrolled, and the
\* iteration changes the song and reads a key that moves the offset.
KeyMeetsSongChange ==
    /\ main.pc = "loop"
    /\ main.disable_auto_scroll
    /\ ScrollOffset(ui) > 0
    /\ \E in \in TickInputs :
         /\ Read(in)
         /\ SongChanges(in)
         /\ in.key \in {"KEY_UP", "KEY_DOWN"}
         /\ Iteration(in).main.pc = "loop"
         /\ Iteration(in).main.disable_auto_scroll
         /\ ScrollOffset(Iteration(in).ui) # ScrollOffset(BeforeInput(in).ui)

\* C7: an iteration whose poll reports no song path ends the loop cleanly:
\* the program exits without an error, without a redraw and without
\* handling input.
NoSongExitsCleanly ==
    main.pc = "loop" =>
        \A in \in TickInputs :
            (Read(in) /\ NoSongPath(in)) =>
                LET r == Iteration(in)
                IN /\ r.main.pc = "exited"
                   /\ r.ui = ui
                   /\ r.manual = manual

\* C8: with a duration of 0, scroll raises nothing and leaves the current
\* index at 0, whatever the lyric set and the position, and an iteration
\* that polls a duration of 0 keeps the loop running.
ZeroDurationLocatesZero ==
    main.pc = "loop" =>
        /\ \A p \in 0..MaxDuration :
             LET sc == scroll(ui, 0, p)
             IN /\ ~sc.raised
                /\ ScrollOffset(sc.self) = 0
        /\ \A in \in TickInputs :
             ( /\ Read(in)
               /\ poll_status(Cur, in.out).main.pc = "loop"
               /\ poll_status(Cur, in.out).main.duration = 0 )
             => Iteration(in).main.pc = "loop"

\* the 1-based indices of the lines that carry a timestamp
Stamped(timestamps) ==
    {i \in 1..Len(timestamps) : timestamps[i] # NoTimestamp}

StrictlyIncreasing(timestamps) ==
    \A i, j \in Stamped(timestamps) : i < j => timestamps[i] < timestamps[j]

\* the 0-based index of the last stamped line at or before the position, or 0
LastAtOrBefore(timestamps, song_position) ==
    LET S == {i \in Stamped(timestamps) : timestamps[i] <= song_position * 100}
    IN IF S = {} THEN 0 ELSE SetMax(S) - 1

Located == main.pc = "located" /\ ui.has_timestamps /\ main.duration > 0

\* C9: in timestamped mode with strictly increasing timestamps and a
\* duration > 0, the located index is that of the last stamped line whose
\* timestamp is <= position, or 0 if there is none.
LocatesLastStampedLine ==
    (Located /\ StrictlyIncreasing(ui.timestamps)) =>
        ui.current_line_idx = LastAtOrBefore(ui.timestamps, main.position)

\* C9 witness: the scan passed a line without a timestamp and a stamped
\* line after it became current, while a later stamped line is still ahead.
ScanPassedUnstampedLine ==
    /\ Located
    /\ StrictlyIncreasing(ui.timestamps)
    /\ ui.current_line_idx >= 1
    /\ ui.timestamps[ui.current_line_idx] = NoTimestamp
    /\ ui.timestamps[ui.current_line_idx + 1] # NoTimestamp
    /\ \E i \in Stamped(ui.timestamps) : ui.timestamps[i] > main.position * 100

\* the position is beyond every timestamp of the lyric set
BeyondEveryTimestamp ==
    \A i \in Stamped(ui.timestamps) : ui.timestamps[i] < main.position * 100

\* C10 as claimed: beyond the last timestamp the located index is N-1.
BeyondLastLocatesLastIndex ==
    (Located /\ BeyondEveryTimestamp) =>
        ui.current_line_idx = Len(ui.lines) - 1

\* C10 amended: beyond every timestamp the located index is that of the
\* last line that carries a timestamp.
BeyondLastLocatesLastStamped ==
    (Located /\ BeyondEveryTimestamp) =>
        ui.current_line_idx = SetMax(Stamped(ui.timestamps)) - 1

\* C10 witness: the position is beyond every timestamp and the lyric set
\* ends with a line without a timestamp, which is not the located one.
BeyondLastWithUnstampedTail ==
    /\ Located
    /\ BeyondEveryTimestamp
    /\ ui.timestamps[Len(ui.timestamps)] = NoTimestamp
    /\ ui.current_line_idx < Len(ui.lines) - 1
    /\ ui.current_line_idx > 0

Min(a, b) == IF a <= b THEN a ELSE b

\* the full-mode interface holding the lyric set that was located
FullModeOf(self) == UI_update_lyrics(UI_init(self.screen), self.lines)

\* C11: in proportional mode, with a duration > 0 and a position within
\* [0, duration], the located index of both interfaces is
\* floor(position * N / duration) clamped to [0, N-1].
ProportionalIndexClamped ==
    ( /\ main.pc = "located"
      /\ ~ui.has_timestamps
      /\ main.duration > 0
      /\ main.position <= main.duration )
    => LET n == Len(ui.lines)
           clamped == Max(0, Min(n - 1, (main.position * n) \div main.duration))
       IN /\ ui.current_line_idx = clamped
          /\ UI_line_index(FullModeOf(ui), main.duration, main.position) = clamped

\* C14: with a duration > 0, UI.scroll computes the line index that
\* MinimalUI.scroll computes, for lyric sets with and without timestamps.
FullModeLocatesLikeMinimal ==
    (main.pc = "located" /\ main.duration > 0)
    => UI_line_index(FullModeOf(ui), main.duration, main.position)
       = ui.current_line_idx

\* the iteration that reads `in` polls another position of the song that is
\* playing, with a duration > 0, while auto-follow is on
FollowsPositionChange(in) ==
    LET p == poll_status(Cur, in.out)
    IN /\ args.auto_scroll
       /\ ~main.disable_auto_scroll
       /\ p.main.pc = "loop"
       /\ p.main.song_path = main.song_path_old
       /\ p.main.position # main.position_old
       /\ p.main.duration > 0

\* C15: while auto-follow is on, an iteration that polls a changed position
\* sets the full-mode offset to max(0, line index - rows/2), and redraws
\* before it reads input only if the scroll offset differs from the one on
\* screen.
FollowRedrawsOnlyOnChange ==
    main.pc = "loop" =>
        \A in \in TickInputs :
            (Read(in) /\ FollowsPositionChange(in)) =>
                LET p == poll_status(Cur, in.out)
                    b == BeforeInput(in)
                IN /\ b.ui.cls = "UI" =>
                        b.ui.position
                        = Max(0, UI_line_index(ui, p.main.duration, p.main.position)
                                 - (ui.screen.h \div 2))
                   /\ ScrollOffset(b.ui) = ScrollOffset(ui)
                      => b.ui.screen.refreshes = 0

\* C16: while manual override is on, the full-mode offset is within
\* [0, max(0, N - rows/2)] for the lines and the height the interface has,
\* and a key that changes the offset redraws in its iteration.
ManualOffsetInRange ==
    (main.pc = "loop" /\ ui.cls = "UI") =>
        /\ main.disable_auto_scroll =>
             /\ 0 <= ui.position
             /\ ui.position <= Max(0, Len(ui.lines) - (ui.screen.h \div 2))
        /\ \A in \in TickInputs :
             ( /\ Read(in)
               /\ ScrollOffset(Iteration(in).ui) # ScrollOffset(BeforeInput(in).ui) )
             => Iteration(in).ui.screen.refreshes
                > BeforeInput(in).ui.screen.refreshes

\* C17: an iteration that reads KEY_RESIZE redraws when it handles the key
\* and changes neither the scroll offset nor disable_auto_scroll by it, in
\* both user interfaces.
ResizeRedrawsAndKeepsScroll ==
    main.pc = "loop" =>
        \A in \in TickInputs :
            ( /\ Read(in)
              /\ in.key = "KEY_RESIZE"
              /\ BeforeInput(in).main.pc = "loop" )
            => LET b == BeforeInput(in)
                   r == Iteration(in)
               IN /\ r.ui.screen.refreshes > b.ui.screen.refreshes
                  /\ ScrollOffset(r.ui) = ScrollOffset(b.ui)
                  /\ r.main.disable_auto_scroll = b.main.disable_auto_scroll

\* C19: without the auto-scroll option, an iteration of the loop changes the
\* scroll offset only if it reads KEY_UP or KEY_DOWN or handles a song change.
NoAutoScrollWithoutOption ==
    (main.pc = "loop" /\ ~args.auto_scroll) =>
        \A in \in TickInputs :
            (Read(in) /\ ScrollOffset(Iteration(in).ui) # ScrollOffset(ui))
            => (in.key \in {"KEY_UP", "KEY_DOWN"} \/ SongChanges(in))

\* C19 witness: the option is off and the iteration polls, for the song that
\* is playing, a position that scroll would move the offset for; the
\* iteration reads no key and the loop goes on.
PositionChangeWithoutOption ==
    /\ main.pc = "loop"
    /\ ~args.auto_scroll
    /\ ~main.disable_auto_scroll
    /\ \E in \in TickInputs :
         LET p == poll_status(Cur, in.out)
         IN /\ Read(in)
            /\ in.key = "OTHER"
            /\ p.main.pc = "loop"
            /\ p.main.song_path = main.song_path_old
            /\ p.main.position # main.position_old
            /\ p.main.duration > 0
            /\ ScrollOffset(scroll(ui, p.main.duration, p.main.position).self)
               # ScrollOffset(ui)
            /\ Iteration(in).main.pc = "loop"
            /\ ScrollOffset(Iteration(in).ui) = ScrollOffset(ui)

\* C20: an iteration of the loop calls get_lyrics once, and fill_tags once if
\* save_tags is set, when the song path it holds after its poll step is
\* present and differs from song_path_old, and calls neither otherwise; when
\* the loop goes on, song_path_old equals the song path.
FetchOncePerSongChange ==
    main.pc = "loop" =>
        /\ main.song_path_old = main.song_path
        /\ \A in \in TickInputs :
             Read(in) =>
                 LET r == Iteration(in)
                 IN /\ r.calls.get_lyrics = IF SongChanges(in) THEN 1 ELSE 0
                    /\ r.calls.fill_tags
                       = IF SongChanges(in) /\ args.save_tags THEN 1 ELSE 0
                    /\ SongChanges(in) => r.main.song_path_old = r.main.song_path

\* C20 witness: with save_tags set, an iteration that polls the same song
\* at another position fetches and writes nothing, and one that polls
\* another song fetches and writes once.
SameSongPolledAfterChange ==
    /\ main.pc = "loop"
    /\ args.save_tags
    /\ main.timer >= check_status
    /\ \E in \in TickInputs :
         /\ Read(in)
         /\ ~in.out.error
         /\ in.out.file = main.song_path
         /\ in.out.position # main.position
         /\ Iteration(in).main.pc = "loop"
         /\ Iteration(in).calls = NoCalls
    /\ \E in \in TickInputs :
         /\ Read(in)
         /\ SongChanges(in)
         /\ Iteration(in).calls = [get_lyrics |-> 1, fill_tags |-> 1]

\* C18: for a timestamp whose sub-second field has 1, 2 or 3 digits, the
\* parsed time is minutes*60 + seconds plus less than one second: in
\* milliseconds, parsed - (minutes*60 + seconds)*1000 is within [0, 999].
\* (call.ret is in hundredths of a second.)
SubSecondBelowOneSecond ==
    (call.fn = "time_in_seconds" /\ Len(call.groups[3]) \in 1..3) =>
        LET parsed_ms == call.ret * 10
            whole_ms == (call.minutes * 60 + call.seconds) * 1000
        IN /\ 0 <= parsed_ms - whole_ms
           /\ parsed_ms - whole_ms <= 999

\* the texts a fetcher or get_lyrics returns for a failure
FailureTexts == NOT_LYRICS \cup {"Lyrics not found."}

\* C12: with save_tags, when get_lyrics returns a text that signals a
\* failure, fill_tags leaves the lyrics tag of the song file as it was.
FailureTextNeverSaved ==
    (call.fn = "fill_tags" /\ call.lyrics \in FailureTexts) =>
        call.tags.lyrics = call.tags_before.lyrics

\* the rows of UI.draw joined, the two spaces that begin every row after
\* the first removed
RECURSIVE Unindented(_, _)
Unindented(rows, i) ==
    IF i > Len(rows) THEN <<>>
    ELSE (IF i = 1 THEN rows[i] ELSE SubSeq(rows[i], 3, Len(rows[i])))
         \o Unindented(rows, i + 1)

\* the texts written by _draw_centered_line joined (the centering is in x)
RECURSIVE Joined(_, _)
Joined(out, i) ==
    IF i > Len(out) THEN <<>> ELSE out[i].text \o Joined(out, i + 1)

\* words separated by one space, no space at either end
SingleSpaced(line) ==
    /\ line # <<>> => (line[1] # " " /\ line[Len(line)] # " ")
    /\ \A i \in 1..(Len(line) - 1) : ~(line[i] = " " /\ line[i + 1] = " ")

\* C13: when the rows hold every segment of the line, the segments put
\* together without the padding of the renderer are the line, for UI.draw
\* and for MinimalUI._draw_centered_line (there on a line as _clean_line
\* leaves it, its words one space apart).
WrapRoundTrip ==
    /\ (call.fn = "UI.draw" /\ ~call.cut)
       => Unindented(call.rows, 1) = call.line
    /\ ( /\ call.fn = "MinimalUI._draw_centered_line"
         /\ ~call.lost
         /\ SingleSpaced(call.line) )
       => Joined(call.out, 1) = call.line

\* the part of C13 on UI.draw alone
FullWrapRoundTrip ==
    (call.fn = "UI.draw" /\ ~call.cut) => Unindented(call.rows, 1) = call.line

====
